---- MODULE Spec2Model ----
(***************************************************************************)
(* A model of the Unflared image generator (src/unflared.py): one browser  *)
(* session owned by the asyncio loop of main(), a Flask gateway whose      *)
(* worker threads submit make_api_request coroutines to that loop, and the *)
(* PNG files those coroutines write to the working directory.              *)
(*                                                                         *)
(* Strings are sequences of one-character strings, so that sanitising,     *)
(* truncating and validating names are computed as the code computes them. *)
(***************************************************************************)
EXTENDS Integers, Sequences, FiniteSets, TLC

\* ------------------------------------------------------------------------
\* Bounds of the model
\* ------------------------------------------------------------------------

\* number of POST /generate-image requests a behaviour may contain
NReq == 2

\* the clock (seconds) runs from 0 to MaxClock
MaxClock == 1

\* longest arbitrary prompt enumerated character by character
MaxFree == 2

\* the long prompts are a free part followed by up to MaxPad + 48 letters
MaxPad == 3

\* longest name enumerated for GET /get-image
MaxName == 5

\* the files listed were last changed in seconds 9 to MaxStamp of the minute
MaxStamp == 10

\* ------------------------------------------------------------------------
\* Characters and strings
\* ------------------------------------------------------------------------

\* a letter outside ASCII for which str.isalnum() is true (U+00E9)
EAcute == "U+00E9"

\* [A-Za-z0-9]
AsciiAlnum ==
  {"a","b","c","d","e","f","g","h","i","j","k","l","m","n","o","p","q","r",
   "s","t","u","v","w","x","y","z"}
  \cup {"A","B","C","D","E","F","G","H","I","J","K","L","M","N","O","P","Q",
        "R","S","T","U","V","W","X","Y","Z"}
  \cup {"0","1","2","3","4","5","6","7","8","9"}

\* str.isalnum(): true of every Unicode letter or digit, ASCII or not
isalnum(c) == c \in AsciiAlnum \cup {EAcute}

\* the characters prompts are built from
PromptChars == {"a", "Z", "7", " ", "-", "_", "/", ".", "!", EAcute}

\* the characters c with c.isalnum() or c in (' ', '-', '_')
Kept == {c \in AsciiAlnum \cup PromptChars : isalnum(c)} \cup {" ", "-", "_"}

\* [A-Za-z0-9 _-]
AsciiSafe == AsciiAlnum \cup {" ", "-", "_"}

RECURSIVE Keep(_, _)
\* "".join(c for c in s if Test(c)) with Test given as a set of characters
Keep(s, allowed) ==
  IF s = <<>> THEN <<>>
  ELSE IF Head(s) \in allowed THEN <<Head(s)>> \o Keep(Tail(s), allowed)
       ELSE Keep(Tail(s), allowed)

RECURSIVE rstrip(_)
\* str.rstrip(): drop trailing whitespace
rstrip(s) ==
  IF s = <<>> THEN <<>>
  ELSE IF s[Len(s)] = " " THEN rstrip(SubSeq(s, 1, Len(s) - 1))
       ELSE s

\* s[:n]
Prefix(s, n) == SubSeq(s, 1, IF Len(s) < n THEN Len(s) ELSE n)

\* s.replace(a, b) for single characters
replace(s, a, b) == [i \in 1..Len(s) |-> IF s[i] = a THEN b ELSE s[i]]

\* s.endswith(t)
endswith(s, t) ==
  Len(s) >= Len(t) /\ SubSeq(s, Len(s) - Len(t) + 1, Len(s)) = t

\* s.startswith(t)
startswith(s, t) == Len(s) >= Len(t) /\ SubSeq(s, 1, Len(t)) = t

\* t in s, for strings
contains(s, t) ==
  \E i \in 1..(Len(s) + 1) :
     i + Len(t) - 1 <= Len(s) /\ SubSeq(s, i, i + Len(t) - 1) = t

RECURSIVE Repeat(_, _)
Repeat(c, n) == IF n = 0 THEN <<>> ELSE <<c>> \o Repeat(c, n - 1)

DotPng == <<".", "p", "n", "g">>

Tag == <<"g","e","n","e","r","a","t","e","d","_","i","m","a","g","e","_">>

\* ------------------------------------------------------------------------
\* Filename derivation (make_api_request, lines 120-123)
\* ------------------------------------------------------------------------

\* the slice bound of safe_prompt
FragMax == 50

Digit(n) == CASE n = 0 -> "0" [] n = 1 -> "1" [] n = 2 -> "2" [] n = 3 -> "3"
              [] n = 4 -> "4" [] n = 5 -> "5" [] n = 6 -> "6" [] n = 7 -> "7"
              [] n = 8 -> "8" [] n = 9 -> "9"

\* datetime.now().strftime("%Y%m%d_%H%M%S") for second t of a fixed minute
strftime(t) ==
  <<"2","0","2","5","0","1","0","1","_","1","2","0","0">>
     \o <<Digit((t \div 10) % 10), Digit(t % 10)>>

\* safe_prompt with the slice [:50] left out
safe_prompt_noslice(prompt) == rstrip(Keep(prompt, Kept))

\* "".join(c for c in prompt if c.isalnum() or c in (' ','-','_')).rstrip()[:50]
safe_prompt(prompt) ==
  Prefix(rstrip(Keep(prompt, Kept)), FragMax)

\* the prompt cut and its spaces replaced, no character filtered out
fragment_unfiltered(prompt) ==
  replace(Prefix(rstrip(prompt), FragMax), " ", "_")

\* the part of the filename that comes from the prompt
fragment(prompt) == replace(safe_prompt(prompt), " ", "_")

\* f"generated_image_{timestamp}_{safe_prompt.replace(' ', '_')}.png"
filename_of(t, prompt) ==
  Tag \o strftime(t) \o <<"_">> \o fragment(prompt) \o DotPng

\* ------------------------------------------------------------------------
\* State
\* ------------------------------------------------------------------------

VARIABLES
  \* main() and the globals of the module (lines 13-16)
  mainPc,               \* "start", "init", "serving", "cleanup", "exited"
  initPc,               \* the await of initialize_browser() that is pending
  cleanupPc,            \* the await of cleanup_browser() that is pending
  playwright_instance,  \* global: set (TRUE) or None (FALSE)
  browser,              \* global
  context,              \* local of initialize_browser()
  page,                 \* global
  main_loop,            \* global
  flask,                \* the Flask thread is listening
  log,                  \* what has been printed about failures
  released,             \* the release calls made, in order
  \* the clock and the working directory
  now,
  files,
  \* POST /generate-image: one handler and one submitted coroutine each
  body,                 \* the request's body
  hpc,                  \* handler: "idle", "waiting", "done"
  resp,                 \* the responses sent, in order
  timedOut,             \* future.result(timeout=120) ran out
  arrival,              \* when the request came: "none", "before_ready", ...
  tpc,                  \* coroutine: "none","queued","title","evaluate","done"
  tthread,              \* the thread that runs the coroutine
  tprompt,              \* the prompt passed to make_api_request
  tres,                 \* what make_api_request returned
  result,               \* its local result: what page.evaluate() returned
  drivers,              \* the threads that have called into the page
  \* filename derivation on its own
  prompt,
  derived,
  \* GET /get-image on its own
  filename,
  get_status,
  fs_ops,
  \* GET /list-images
  list_status,          \* 0 before the handler has answered
  list_body

sessionVars == <<mainPc, initPc, cleanupPc, playwright_instance, browser,
                 context, page, main_loop, flask, log, released>>
diskVars == <<now, files>>
reqVars == <<body, hpc, resp, timedOut, arrival, tpc, tthread, tprompt, tres,
             result, drivers>>
nameVars == <<prompt, derived>>
getVars == <<filename, get_status, fs_ops>>
listVars == <<list_status, list_body>>
vars == <<sessionVars, diskVars, reqVars, nameVars, getVars, listVars>>

Req == 1..NReq

\* the process is alive: main() has not returned
Running == mainPc # "exited"

\* ------------------------------------------------------------------------
\* main() and initialize_browser()
\* ------------------------------------------------------------------------

\* the awaits of initialize_browser(), in order (lines 172-220)
InitAwaits ==
  <<"start", "launch", "new_context", "new_page", "add_init_script", "goto",
    "sleep", "check">>

\* main(), lines 416-419: store the loop, enter initialize_browser()
MainStart ==
  /\ mainPc = "start"
  /\ mainPc' = "init"
  /\ main_loop' = TRUE
  /\ initPc' = 1
  /\ UNCHANGED <<cleanupPc, playwright_instance, browser, context, page,
                 flask, log, released>>
  /\ UNCHANGED <<diskVars, reqVars, nameVars, getVars, listVars>>

\* an await of lines 172-217 returns
InitOk ==
  /\ mainPc = "init"
  /\ initPc \in 1..7
  /\ playwright_instance' = (playwright_instance \/ InitAwaits[initPc] = "start")
  /\ browser' = (browser \/ InitAwaits[initPc] = "launch")
  /\ context' = (context \/ InitAwaits[initPc] = "new_context")
  /\ page' = (page \/ InitAwaits[initPc] = "new_page")
  /\ initPc' = initPc + 1
  /\ UNCHANGED <<mainPc, cleanupPc, main_loop, flask, log, released>>
  /\ UNCHANGED <<diskVars, reqVars, nameVars, getVars, listVars>>

\* initialize_browser() treating a detected block page as a failure
initialize_browser_strict(found) == found = "clear"

\* what initialize_browser() returns once the check of line 220 has been
\* evaluated: True whether or not the block page was found (lines 220-225)
initialize_browser(found) == found \in {"clear", "blocked"}

\* lines 220-225 and main(), lines 419-425: the block check is evaluated,
\* initialize_browser() returns and main() starts the Flask thread
InitChecked ==
  /\ mainPc = "init"
  /\ initPc = 8
  /\ \E found \in {"clear", "blocked"} :
       /\ log' = (IF found = "blocked" THEN log \cup {<<"blocked", "check">>}
                  ELSE log)
       /\ IF initialize_browser(found)
          THEN mainPc' = "serving" /\ flask' = TRUE
          ELSE mainPc' = "exited" /\ flask' = FALSE
  /\ initPc' = 9
  /\ UNCHANGED <<cleanupPc, playwright_instance, browser, context, page,
                 main_loop, released>>
  /\ UNCHANGED <<diskVars, reqVars, nameVars, getVars, listVars>>

\* an await of initialize_browser() raises (goto: no network-idle within 30 s):
\* lines 227-229 print the error and return False, and main(), lines 419-421,
\* prints "Exiting..." and returns, which ends asyncio.run() and the process
InitRaise ==
  /\ mainPc = "init"
  /\ initPc \in (1..8) \ {7}
  /\ log' = log \cup {<<"init_error", InitAwaits[initPc]>>}
  /\ mainPc' = "exited"
  /\ initPc' = 9
  /\ UNCHANGED <<cleanupPc, playwright_instance, browser, context, page,
                 main_loop, flask, released>>
  /\ UNCHANGED <<diskVars, reqVars, nameVars, getVars, listVars>>

\* ------------------------------------------------------------------------
\* Ctrl+C and cleanup_browser()
\* ------------------------------------------------------------------------

\* the release calls of cleanup_browser(), in order (lines 238-243)
Releases == <<"page", "browser", "playwright">>

\* Ctrl+C during initialization: nothing catches it, the process ends
InterruptInit ==
  /\ mainPc = "init"
  /\ mainPc' = "exited"
  /\ log' = log \cup {<<"interrupt", "init">>}
  /\ UNCHANGED <<initPc, cleanupPc, playwright_instance, browser, context,
                 page, main_loop, flask, released>>
  /\ UNCHANGED <<diskVars, reqVars, nameVars, getVars, listVars>>

\* Ctrl+C while main() sleeps in its loop (lines 437-444). Raised inside the
\* coroutine it is caught at line 441 and cleanup_browser() starts; raised in
\* the loop's own code, or delivered as a cancellation, it ends the process
\* with no cleanup.
InterruptServing ==
  /\ mainPc = "serving"
  /\ \E caught \in BOOLEAN :
       IF caught
       THEN mainPc' = "cleanup" /\ cleanupPc' = 1
       ELSE mainPc' = "exited" /\ cleanupPc' = cleanupPc
  /\ log' = log \cup {<<"interrupt", "serving">>}
  /\ UNCHANGED <<initPc, playwright_instance, browser, context, page,
                 main_loop, flask, released>>
  /\ UNCHANGED <<diskVars, reqVars, nameVars, getVars, listVars>>

\* a release call of cleanup_browser() returns; after the last one main()
\* prints "Goodbye!" and returns
CleanupOk ==
  /\ mainPc = "cleanup"
  /\ cleanupPc \in 1..3
  /\ released' = Append(released, Releases[cleanupPc])
  /\ cleanupPc' = cleanupPc + 1
  /\ mainPc' = (IF cleanupPc = 3 THEN "exited" ELSE "cleanup")
  /\ UNCHANGED <<initPc, playwright_instance, browser, context, page,
                 main_loop, flask, log>>
  /\ UNCHANGED <<diskVars, reqVars, nameVars, getVars, listVars>>

\* a release call raises: the one try of lines 237-246 is left, the error is
\* printed and cleanup_browser() returns
CleanupRaise ==
  /\ mainPc = "cleanup"
  /\ cleanupPc \in 1..3
  /\ released' = Append(released, Releases[cleanupPc])
  /\ log' = log \cup {<<"cleanup_error", Releases[cleanupPc]>>}
  /\ cleanupPc' = 4
  /\ mainPc' = "exited"
  /\ UNCHANGED <<initPc, playwright_instance, browser, context, page,
                 main_loop, flask>>
  /\ UNCHANGED <<diskVars, reqVars, nameVars, getVars, listVars>>

\* the clock
Tick ==
  /\ Running
  /\ now < MaxClock
  /\ now' = now + 1
  /\ UNCHANGED <<files, sessionVars, reqVars, nameVars, getVars, listVars>>

\* ------------------------------------------------------------------------
\* POST /generate-image: the handler (generate_image_endpoint)
\* ------------------------------------------------------------------------

\* 'A detailed oil painting of purple clouds' (lines 20 and 259)
DefaultPrompt ==
  <<"A"," ","d","e","t","a","i","l","e","d"," ","o","i","l"," ","p","a","i",
    "n","t","i","n","g"," ","o","f"," ","p","u","r","p","l","e"," ","c","l",
    "o","u","d","s">>

\* the prompts a request may carry
ReqPrompts == {<<>>, <<"a">>}

\* request bodies: no JSON at all, a JSON object without "prompt", a JSON
\* object with a "prompt" string
Bodies ==
  {[json |-> FALSE, has |-> FALSE, prompt |-> <<>>],
   [json |-> TRUE, has |-> FALSE, prompt |-> <<>>]}
  \cup {[json |-> TRUE, has |-> TRUE, prompt |-> p] : p \in ReqPrompts}

NoBody == [json |-> FALSE, has |-> FALSE, prompt |-> <<>>]

\* lines 258-259: data = request.get_json() or {};
\* prompt = data.get('prompt', <default>)
endpoint_prompt(b) == IF b.json /\ b.has THEN b.prompt ELSE DefaultPrompt

\* status of a connection that was refused: no HTTP response at all
Refused == 0

\* the coroutine run by the calling worker thread instead
run_in_worker == "worker"

\* asyncio.run_coroutine_threadsafe(..., main_loop), line 271: the coroutine
\* is scheduled on the loop's thread
run_coroutine_threadsafe == "loop"

\* no answer of /list-images yet
NoList == [success |-> FALSE, count |-> 0, images |-> <<>>]

\* a result not yet there
NoResult ==
  [tag |-> "none", error |-> "", data |-> [kind |-> "absent", val |-> ""],
   filename |-> <<>>, image_size |-> 0]

\* {"success": False, "error": msg}
Failure(msg) ==
  [tag |-> "Failure", error |-> msg, data |-> [kind |-> "absent", val |-> ""],
   filename |-> <<>>, image_size |-> 0]

\* {"success": False, "error": msg, "data": d}
FailureData(msg, kind, d) ==
  [tag |-> "Failure", error |-> msg, data |-> [kind |-> kind, val |-> d],
   filename |-> <<>>, image_size |-> 0]

\* {"success": True, "filename": fn, "image_size": n, ...} (lines 136-145)
Success(fn, n) ==
  [tag |-> "Success", error |-> "", data |-> [kind |-> "absent", val |-> ""],
   filename |-> fn, image_size |-> n]

\* an exception that leaves make_api_request: the future carries it
Raised(msg) ==
  [tag |-> "Raised", error |-> msg, data |-> [kind |-> "absent", val |-> ""],
   filename |-> <<>>, image_size |-> 0]

\* the Flask thread is accepting connections
Listening == flask /\ Running

Respond(r, status) ==
  /\ resp' = [resp EXCEPT ![r] = Append(@, status)]
  /\ hpc' = [hpc EXCEPT ![r] = "done"]

\* a request sent while nothing listens on port 5000 (the Flask thread is
\* started at line 425, after initialize_browser() has returned True)
ConnectionRefused(r) ==
  /\ hpc[r] = "idle"
  /\ ~Listening
  /\ arrival' = [arrival EXCEPT ![r] =
                   IF mainPc \in {"start", "init"} THEN "before_ready"
                   ELSE "after_exit"]
  /\ Respond(r, Refused)
  /\ UNCHANGED <<body, timedOut, tpc, tthread, tprompt, tres, drivers, result>>
  /\ UNCHANGED <<sessionVars, diskVars, nameVars, getVars, listVars>>

\* lines 256-272 and 288-294: the handler up to future.result(timeout=120).
\* get_json() of a body that is no JSON returns None or raises, by the
\* version of Flask.
Handle(r, bodies) ==
  /\ hpc[r] = "idle"
  /\ Listening
  /\ \E b \in bodies, gj \in {"none", "raises"} :
       /\ body' = [body EXCEPT ![r] = b]
       /\ IF ~b.json /\ gj = "raises"
          THEN /\ Respond(r, 500)
               /\ UNCHANGED <<tpc, tthread, tprompt>>
          ELSE IF ~page \/ ~browser \/ ~main_loop
          THEN /\ Respond(r, 503)
               /\ UNCHANGED <<tpc, tthread, tprompt>>
          ELSE /\ tpc' = [tpc EXCEPT ![r] = "queued"]
               /\ tthread' = [tthread EXCEPT ![r] = run_coroutine_threadsafe]
               /\ tprompt' = [tprompt EXCEPT ![r] = endpoint_prompt(b)]
               /\ hpc' = [hpc EXCEPT ![r] = "waiting"]
               /\ resp' = resp
  /\ arrival' = [arrival EXCEPT ![r] = "ready"]
  /\ UNCHANGED <<timedOut, tres, drivers, result>>
  /\ UNCHANGED <<sessionVars, diskVars, nameVars, getVars, listVars>>

\* the handler answering a completion that comes after its timeout too
blocked_or_timed_out(r) == hpc[r] = "waiting" \/ timedOut[r]

\* the handler is blocked in future.result(timeout=120), line 272
blocked_in_result(r) == hpc[r] = "waiting"

\* lines 281-287: 120 seconds pass with the future not done
Timeout(r) ==
  /\ Running
  /\ blocked_in_result(r)
  /\ tpc[r] # "done"
  /\ timedOut' = [timedOut EXCEPT ![r] = TRUE]
  /\ Respond(r, 408)
  /\ UNCHANGED <<body, arrival, tpc, tthread, tprompt, tres, drivers, result>>
  /\ UNCHANGED <<sessionVars, diskVars, nameVars, getVars, listVars>>

\* lines 272-279 and 288-294: the future is done within the bound
Receive(r) ==
  /\ Running
  /\ blocked_in_result(r)
  /\ tpc[r] = "done"
  /\ Respond(r, CASE tres[r].tag = "Success" -> 200
                  [] tres[r].tag = "Failure" -> 400
                  [] OTHER -> 500)
  /\ UNCHANGED <<body, arrival, timedOut, tpc, tthread, tprompt, tres, drivers, result>>
  /\ UNCHANGED <<sessionVars, diskVars, nameVars, getVars, listVars>>

\* ------------------------------------------------------------------------
\* make_api_request: the coroutine on the loop
\* ------------------------------------------------------------------------

ImagePng == <<"i","m","a","g","e","/","p","n","g">>
AppJson == <<"a","p","p","l","i","c","a","t","i","o","n","/","j","s","o","n">>
TextPlain == <<"t","e","x","t","/","p","l","a","i","n">>
Image == <<"i","m","a","g","e">>

\* what the function evaluated in the page returns (lines 52-103): the keys
\* of the object, and the values of those that matter. ctNone: the response
\* had no content-type header (contentType is null).
PageResult(keys, ok, ct, ctNone, data, text, err) ==
  [keys |-> keys, ok |-> ok, contentType |-> ct, ctNone |-> ctNone,
   imageData |-> data, body |-> text, error |-> err]

ImageKeys == {"status", "ok", "headers", "contentType", "imageData"}
TextKeys == {"status", "ok", "headers", "contentType", "body"}

\* base64 payloads: of three bytes, of no byte, and one cut short
B64Three == <<"Q", "U", "J", "D">>
B64Cut == <<"Q", "U", "J">>

JsonBody == "{\"error\":\"quota\"}"
TextBody == "Forbidden"

\* an image, and an upstream rejection
ImageOk == PageResult(ImageKeys, TRUE, ImagePng, FALSE, B64Three, "", "")
Rejected == PageResult(TextKeys, FALSE, TextPlain, FALSE, <<>>, TextBody, "")

\* result before page.evaluate() has returned
NoPage == PageResult({}, FALSE, <<>>, FALSE, <<>>, "", "")

\* the results the page can hand back
PageResults ==
  { ImageOk, Rejected,
    PageResult(ImageKeys, TRUE, ImagePng, FALSE, <<>>, "", ""),
    PageResult(ImageKeys, TRUE, ImagePng, FALSE, B64Cut, "", ""),
    PageResult(ImageKeys, FALSE, ImagePng, FALSE, B64Three, "", ""),
    PageResult(TextKeys, TRUE, AppJson, FALSE, <<>>, JsonBody, ""),
    PageResult(TextKeys, TRUE, TextPlain, FALSE, <<>>, TextBody, ""),
    PageResult(TextKeys, TRUE, <<>>, TRUE, <<>>, TextBody, ""),
    PageResult(TextKeys, FALSE, <<>>, TRUE, <<>>, TextBody, ""),
    PageResult({"error"}, FALSE, <<>>, FALSE, <<>>, "", "Failed to fetch") }

\* json.loads(text) parses: of the bodies above, the JSON one
json_parses(text) == text = JsonBody

B64Alphabet == AsciiAlnum \cup {"+", "/"}

RECURSIVE Pads(_)
\* the number of "=" a payload ends with
Pads(s) ==
  IF s = <<>> \/ s[Len(s)] # "=" THEN 0
  ELSE 1 + Pads(SubSeq(s, 1, Len(s) - 1))

\* len(base64.b64decode(s)), or -1 where b64decode raises binascii.Error:
\* characters outside the alphabet are dropped, what is left must come in
\* groups of four
b64decode_len(s) ==
  LET k == Keep(s, B64Alphabet \cup {"="})
  IN  IF Len(k) % 4 # 0 \/ Pads(k) > 2 THEN 0 - 1
      ELSE 3 * (Len(k) \div 4) - Pads(k)

\* an exception reaching the outer handler and leaving the coroutine
outer_reraise(msg) == Raised(msg)

\* lines 159-163: except Exception as e: return Failure(str(e))
outer_except(msg) == Failure(msg)

\* result.get('ok') is truthy
ResultOk(res) == "ok" \in res.keys /\ res.ok

\* the message taken from the error key alone
error_msg_error_only(res) ==
  IF "error" \in res.keys THEN res.error ELSE "Unknown error"

\* line 156: result.get('body', result.get('error', 'Unknown error'))
error_msg(res) ==
  IF "body" \in res.keys THEN res.body
  ELSE IF "error" \in res.keys THEN res.error
  ELSE "Unknown error"

\* lines 108-157 up to the file: what the call will do with the result.
\* "save": decode and write; otherwise the value returned.
Normalised(res) ==
  IF ResultOk(res)
  THEN IF "contentType" \in res.keys /\ res.ctNone
       THEN \* 'image' in None
            [do |-> "return",
             val |-> outer_except("argument of type 'NoneType' is not iterable")]
       ELSE IF contains(IF "contentType" \in res.keys THEN res.contentType
                        ELSE <<>>, Image)
       THEN IF "imageData" \in res.keys /\ res.imageData # <<>>
            THEN [do |-> "save", val |-> NoResult]
            ELSE [do |-> "return", val |-> Failure("No image data received")]
       ELSE IF "body" \notin res.keys
       THEN [do |-> "return", val |-> outer_except("'body'")]
       ELSE IF json_parses(res.body)
       THEN [do |-> "return",
             val |-> FailureData("Unexpected JSON response", "json", res.body)]
       ELSE [do |-> "return",
             val |-> FailureData("Unexpected text response", "text", res.body)]
  ELSE [do |-> "return", val |-> Failure(error_msg(res))]

\* the file a call leaves: whole or not, its size, its st_ctime (the second,
\* and the microseconds within it: none on the model's clock)
File(whole, size, t) ==
  [whole |-> whole, size |-> size, created |-> t, micro |-> 0]

\* the outcomes of open(filename, 'wb') and f.write(image_bytes)
FsOutcomes == {"ok", "open_raises", "write_raises"}

\* lines 118-145: decode, derive the name, write the file, return Success.
\* [val, files]: the value returned and the directory afterwards.
Saved(res, p, t, fs, dir) ==
  LET n == b64decode_len(res.imageData)
      fn == filename_of(t, p)
  IN  IF n < 0
      THEN [val |-> outer_except("Incorrect padding"), files |-> dir]
      ELSE IF fs = "open_raises"
      THEN [val |-> outer_except("Permission denied"), files |-> dir]
      ELSE IF fs = "write_raises"
      THEN [val |-> outer_except("No space left on device"),
            files |-> (fn :> File(FALSE, 0, t)) @@ dir]
      ELSE [val |-> Success(fn, n), files |-> (fn :> File(TRUE, n, t)) @@ dir]

\* the loop runs whatever is scheduled on it while main() awaits
LoopRuns == mainPc \in {"init", "serving", "cleanup"}

\* the thread of r's coroutine runs it
Runs(r) == IF tthread[r] = "loop" THEN LoopRuns ELSE Running

Return(r, val) ==
  /\ tres' = [tres EXCEPT ![r] = val]
  /\ tpc' = [tpc EXCEPT ![r] = "done"]

\* lines 26-34: the coroutine starts and calls page.title()
TaskStart(r) ==
  /\ tpc[r] = "queued"
  /\ Runs(r)
  /\ IF ~page
     THEN Return(r, Failure("Browser not initialized")) /\ drivers' = drivers
     ELSE /\ tpc' = [tpc EXCEPT ![r] = "title"]
          /\ drivers' = drivers \cup {tthread[r]}
          /\ tres' = tres
  /\ UNCHANGED <<body, hpc, resp, timedOut, arrival, tthread, tprompt, result>>
  /\ UNCHANGED <<sessionVars, diskVars, nameVars, getVars, listVars>>

\* lines 34-51: page.title() returns and page.evaluate() is called
TitleOk(r) ==
  /\ tpc[r] = "title"
  /\ Runs(r)
  /\ tpc' = [tpc EXCEPT ![r] = "evaluate"]
  /\ drivers' = drivers \cup {tthread[r]}
  /\ UNCHANGED <<body, hpc, resp, timedOut, arrival, tthread, tprompt, tres, result>>
  /\ UNCHANGED <<sessionVars, diskVars, nameVars, getVars, listVars>>

\* lines 35-36: page.title() raises
TitleRaises(r) ==
  /\ tpc[r] = "title"
  /\ Runs(r)
  /\ Return(r, Failure("Browser page is not responsive"))
  /\ UNCHANGED <<body, hpc, resp, timedOut, arrival, tthread, tprompt, drivers, result>>
  /\ UNCHANGED <<sessionVars, diskVars, nameVars, getVars, listVars>>

\* lines 104-157: page.evaluate() returns and the result is dealt with
EvalReturns(r, results) ==
  /\ tpc[r] = "evaluate"
  /\ Runs(r)
  /\ \E res \in results, fs \in FsOutcomes :
       LET nm == Normalised(res)
           sv == Saved(res, tprompt[r], now, fs, files)
       IN  /\ result' = [result EXCEPT ![r] = res]
           /\ IF nm.do = "save"
              THEN Return(r, sv.val) /\ files' = sv.files
              ELSE Return(r, nm.val) /\ files' = files
  /\ UNCHANGED <<body, hpc, resp, timedOut, arrival, tthread, tprompt, drivers>>
  /\ UNCHANGED <<now, sessionVars, nameVars, getVars, listVars>>

\* page.evaluate() raises (the page crashed, the browser was closed)
EvalRaises(r) ==
  /\ tpc[r] = "evaluate"
  /\ Runs(r)
  /\ Return(r, outer_except("Target closed"))
  /\ UNCHANGED <<body, hpc, resp, timedOut, arrival, tthread, tprompt, drivers, result>>
  /\ UNCHANGED <<sessionVars, diskVars, nameVars, getVars, listVars>>

\* ------------------------------------------------------------------------
\* The server: specification
\* ------------------------------------------------------------------------

\* values of the variables a specification does not use
NamesIdle == prompt = <<>> /\ derived = <<>>
GetIdle == filename = <<>> /\ get_status = 0 /\ fs_ops = <<>>
ListIdle == list_status = 0 /\ list_body = NoList

\* the module has been loaded: the globals of lines 13-16 are None and no
\* request has been sent
ServerIdle ==
  /\ mainPc = "start"
  /\ initPc = 0
  /\ cleanupPc = 0
  /\ playwright_instance = FALSE
  /\ browser = FALSE
  /\ context = FALSE
  /\ page = FALSE
  /\ main_loop = FALSE
  /\ flask = FALSE
  /\ log = {}
  /\ released = <<>>
  /\ body = [r \in Req |-> NoBody]
  /\ hpc = [r \in Req |-> "idle"]
  /\ resp = [r \in Req |-> <<>>]
  /\ timedOut = [r \in Req |-> FALSE]
  /\ arrival = [r \in Req |-> "none"]
  /\ tpc = [r \in Req |-> "none"]
  /\ tthread = [r \in Req |-> "none"]
  /\ tprompt = [r \in Req |-> <<>>]
  /\ tres = [r \in Req |-> NoResult]
  /\ result = [r \in Req |-> NoPage]
  /\ drivers = {}

\* the server starts in a working directory that holds no image
Init ==
  /\ ServerIdle
  /\ now = 0
  /\ files = <<>>
  /\ NamesIdle
  /\ GetIdle
  /\ ListIdle

\* one request, every body and every result of the page
Next ==
  \/ MainStart
  \/ InitOk
  \/ InitChecked
  \/ InitRaise
  \/ InterruptInit
  \/ InterruptServing
  \/ CleanupOk
  \/ CleanupRaise
  \/ Tick
  \/ ConnectionRefused(1)
  \/ Handle(1, Bodies)
  \/ Timeout(1)
  \/ Receive(1)
  \/ TaskStart(1)
  \/ TitleOk(1)
  \/ TitleRaises(1)
  \/ EvalReturns(1, PageResults)
  \/ EvalRaises(1)

Spec == Init /\ [][Next]_vars

\* the bodies and results of the requests that run side by side: each
\* carries a prompt, the page answers with an image or a rejection
PairBodies == {b \in Bodies : b.json /\ b.has /\ b.prompt # <<>>}
PairResults == {ImageOk, Rejected}

\* NReq requests side by side, the operator not pressing Ctrl+C (Ctrl+C and
\* cleanup_browser() are in Next: they stop the coroutines or let them run
\* on, and add no step of the handlers or of the coroutines)
NextConcurrent ==
  \/ MainStart
  \/ InitOk
  \/ InitChecked
  \/ InitRaise
  \/ Tick
  \/ \E r \in Req : ConnectionRefused(r)
  \/ \E r \in Req : Handle(r, PairBodies)
  \/ \E r \in Req : Timeout(r)
  \/ \E r \in Req : Receive(r)
  \/ \E r \in Req : TaskStart(r)
  \/ \E r \in Req : TitleOk(r)
  \/ \E r \in Req : TitleRaises(r)
  \/ \E r \in Req : EvalReturns(r, PairResults)
  \/ \E r \in Req : EvalRaises(r)

SpecConcurrent == Init /\ [][NextConcurrent]_vars

\* ------------------------------------------------------------------------
\* Filename derivation on its own
\* ------------------------------------------------------------------------

RECURSIVE Strings(_, _)
\* the strings over chars of length at most n
Strings(chars, n) ==
  IF n = 0 THEN {<<>>}
  ELSE LET shorter == Strings(chars, n - 1)
       IN  shorter \cup {<<c>> \o t : c \in chars, t \in {u \in shorter : Len(u) = n - 1}}

\* the prompts tried: every short one, and long ones around the slice bound
\* (47 to 47 + MaxPad letters between two short parts)
PromptInputs ==
  Strings(PromptChars, MaxFree)
  \cup {f \o Repeat("a", 47 + k) \o g :
          f \in Strings(PromptChars, 1), g \in Strings(PromptChars, 1),
          k \in 0..MaxPad}

InitFilename ==
  /\ ServerIdle
  /\ now \in 0..MaxClock
  /\ files = <<>>
  /\ prompt \in PromptInputs
  /\ derived = <<>>
  /\ GetIdle
  /\ ListIdle

\* lines 121-123 applied to the prompt
DeriveFilename ==
  /\ derived = <<>>
  /\ derived' = filename_of(now, prompt)
  /\ UNCHANGED <<prompt, sessionVars, diskVars, reqVars, getVars, listVars>>

NextFilename == DeriveFilename

SpecFilename == InitFilename /\ [][NextFilename]_vars

\* ------------------------------------------------------------------------
\* GET /get-image/<filename> (get_image, lines 312-338)
\* ------------------------------------------------------------------------

\* the characters the requested names are built from
NameChars == {"a", ".", "/", "\\"}

\* what a requested name may end with
NameEnds == {<<>>, DotPng, <<".", "p", "n">>, <<"p", "n", "g">>}

\* the names requested
Names == {f \o e : f \in Strings(NameChars, MaxName), e \in NameEnds}

\* the files the working directory may hold
DirNames == {<<"a">> \o DotPng, <<"a", ".">> \o DotPng, DotPng}

\* the check of line 319 without its '..' part
invalid_name_nodots(name) ==
  \/ ~endswith(name, DotPng)
  \/ contains(name, <<"/">>)
  \/ contains(name, <<"\\">>)

\* line 319: not filename.endswith('.png') or '/' in filename
\* or '\\' in filename or '..' in filename
invalid_name(name) ==
  \/ ~endswith(name, DotPng)
  \/ contains(name, <<"/">>)
  \/ contains(name, <<"\\">>)
  \/ contains(name, <<".", ".">>)

InitGetImage ==
  /\ ServerIdle
  /\ now = 0
  /\ \E held \in SUBSET DirNames : files = [n \in held |-> File(TRUE, 3, 0)]
  /\ NamesIdle
  /\ filename \in Names
  /\ get_status = 0
  /\ fs_ops = <<>>
  /\ ListIdle

\* lines 317-338: the handler, with the filesystem calls it makes
get_image ==
  /\ get_status = 0
  /\ IF invalid_name(filename)
     THEN get_status' = 400 /\ fs_ops' = fs_ops
     ELSE IF filename \notin DOMAIN files
     THEN get_status' = 404 /\ fs_ops' = Append(fs_ops, "exists")
     ELSE \E sent \in BOOLEAN :
            /\ get_status' = (IF sent THEN 200 ELSE 500)
            /\ fs_ops' = fs_ops \o <<"exists", "read">>
  /\ UNCHANGED <<filename, sessionVars, diskVars, reqVars, nameVars, listVars>>

NextGetImage == get_image

SpecGetImage == InitGetImage /\ [][NextGetImage]_vars

\* ------------------------------------------------------------------------
\* GET /list-images (list_images, lines 340-377)
\* ------------------------------------------------------------------------

\* six digits of microseconds
Micro6(us) ==
  <<Digit((us \div 100000) % 10), Digit((us \div 10000) % 10),
    Digit((us \div 1000) % 10), Digit((us \div 100) % 10),
    Digit((us \div 10) % 10), Digit(us % 10)>>

\* datetime.fromtimestamp(st_ctime).isoformat() for second t of the minute
\* of strftime and us microseconds: the fraction is left out when it is zero
isoformat(t, us) ==
  <<"2","0","2","5","-","0","1","-","0","1","T","1","2",":","0","0",":">>
     \o <<Digit((t \div 10) % 10), Digit(t % 10)>>
     \o (IF us = 0 THEN <<>> ELSE <<".">> \o Micro6(us))

\* ord(c) of the characters of an isoformat string
ord(c) ==
  CASE c = "-" -> 45 [] c = "." -> 46 [] c = "0" -> 48 [] c = "1" -> 49
    [] c = "2" -> 50 [] c = "3" -> 51 [] c = "4" -> 52 [] c = "5" -> 53
    [] c = "6" -> 54 [] c = "7" -> 55 [] c = "8" -> 56 [] c = "9" -> 57
    [] c = ":" -> 58 [] c = "T" -> 84

RECURSIVE str_lt(_, _)
\* a < b for Python strings: by code point, a proper prefix being smaller
str_lt(a, b) ==
  IF b = <<>> THEN FALSE
  ELSE IF a = <<>> THEN TRUE
  ELSE IF Head(a) # Head(b) THEN ord(Head(a)) < ord(Head(b))
  ELSE str_lt(Tail(a), Tail(b))

\* x goes before y: by the key x['created'], turned round by reverse
before(x, y, reverse) ==
  IF reverse THEN str_lt(y.created, x.created)
  ELSE str_lt(x.created, y.created)

RECURSIVE insert(_, _, _)
\* e put into the sorted s behind every element that does not go after it
insert(e, s, reverse) ==
  IF s = <<>> THEN <<e>>
  ELSE IF before(e, Head(s), reverse) THEN <<e>> \o s
  ELSE <<Head(s)>> \o insert(e, Tail(s), reverse)

RECURSIVE sort(_, _)
\* list.sort(key=lambda x: x['created'], reverse=reverse): stable
sort(s, reverse) ==
  IF s = <<>> THEN <<>>
  ELSE insert(s[Len(s)], sort(SubSeq(s, 1, Len(s) - 1), reverse), reverse)

\* images.sort(key=lambda x: x['created']): oldest first
sort_forward(entries) == sort(entries, FALSE)

\* line 364: images.sort(key=lambda x: x['created'], reverse=True)
sort_reverse(entries) == sort(entries, TRUE)

\* the orders in which os.listdir('.') may give the names of dir
listdir(dir) ==
  {o \in [1..Cardinality(DOMAIN dir) -> DOMAIN dir] :
     \A i, j \in DOMAIN o : i # j => o[i] # o[j]}

\* line 347: f.endswith('.png') and f.startswith('generated_image_')
is_generated_png(f) == endswith(f, DotPng) /\ startswith(f, Tag)

\* lines 350-358: the entry of a file (the url is the filename behind a
\* fixed prefix)
entry(f, stat) ==
  [filename |-> f, size |-> stat.size,
   created |-> isoformat(stat.created, stat.micro)]

\* lines 345-370: the handler, the working directory being readable and
\* left alone while it runs
list_images ==
  /\ list_status = 0
  /\ \E names \in listdir(files) :
       LET png_files == SelectSeq(names, is_generated_png)
           images == sort_reverse([i \in 1..Len(png_files) |->
                                     entry(png_files[i], files[png_files[i]])])
       IN  /\ list_status' = 200
           /\ list_body' =
                [success |-> TRUE, count |-> Len(images), images |-> images]
  /\ UNCHANGED <<sessionVars, diskVars, reqVars, nameVars, getVars>>

\* names make_api_request has given its files
GeneratedNames ==
  {filename_of(0, <<>>), filename_of(0, <<"a">>), filename_of(1, <<"a">>)}

\* names of other files in the working directory
OtherNames == {<<"a">> \o DotPng, Tag \o <<"a">>}

\* when the files were last changed
Stamps == {[created |-> t, micro |-> us] : t \in 9..MaxStamp, us \in {0, 500000}}

\* a working directory with some generated images and some other files
InitListImages ==
  /\ ServerIdle
  /\ now = 0
  /\ \E gen \in SUBSET GeneratedNames, other \in SUBSET OtherNames :
       \E stamp \in [gen -> Stamps] :
         files = [f \in gen \cup other |->
                    IF f \in gen
                    THEN [File(TRUE, 3, 0) EXCEPT !.created = stamp[f].created,
                                                 !.micro = stamp[f].micro]
                    ELSE File(TRUE, 3, 0)]
  /\ NamesIdle
  /\ GetIdle
  /\ ListIdle

NextListImages == list_images

SpecListImages == InitListImages /\ [][NextListImages]_vars

\* ------------------------------------------------------------------------
\* Images generated, then listed and fetched
\* ------------------------------------------------------------------------

\* the prompts of the images stored: none, every single character, pairs
\* that would make a path, and one longer than the slice with such characters
StoredPrompts ==
  Strings(PromptChars, 1)
  \cup {<<".", ".">>, <<".", "/">>, <<"/", "a">>, <<"a", " ">>, <<"\\", "a">>}
  \cup {<<".", ".", "/">> \o Repeat("a", 50) \o <<"/", ".">>}

InitStored ==
  /\ ServerIdle
  /\ now = 0
  /\ files = <<>>
  /\ prompt \in StoredPrompts
  /\ derived = <<>>
  /\ GetIdle
  /\ ListIdle

\* lines 110-145 for the prompt, the page answering with an image and the
\* disk taking it: the file is written and Success returned with its name
StoreImage ==
  /\ LET sv == Saved(ImageOk, prompt, now, "ok", files)
     IN  /\ files' = sv.files
         /\ derived' = sv.val.filename
  /\ UNCHANGED <<now, prompt, sessionVars, reqVars, getVars, listVars>>

\* line 144: the client follows the image_url of a Success it was given,
\* http://localhost:5000/get-image/<filename>
FollowImageUrl ==
  /\ filename = <<>>
  /\ \E f \in DOMAIN files : filename' = f
  /\ UNCHANGED <<get_status, fs_ops, sessionVars, diskVars, reqVars, nameVars,
                 listVars>>

NextStored ==
  \/ Tick
  \/ StoreImage
  \/ FollowImageUrl
  \/ (filename # <<>> /\ get_image)
  \/ list_images

SpecStored == InitStored /\ [][NextStored]_vars

\* ------------------------------------------------------------------------
\* Properties
\* ------------------------------------------------------------------------

\* Ctrl+C has been pressed
Interrupted == \E e \in log : e[1] = "interrupt"

\* r's coroutine has a page operation (page.title(), page.evaluate()) running
InPageWork(r) == tpc[r] \in {"title", "evaluate"}

\* the calls that returned Success
Successes == {r \in Req : tpc[r] = "done" /\ tres[r].tag = "Success"}

\* C1: a request that arrives before initialization has completed is answered
\* with 503, and no coroutine is submitted for it.
C1_EarlyRequestGets503 ==
  \A r \in Req :
    (arrival[r] = "before_ready" /\ hpc[r] = "done")
       => (resp[r] = <<503>> /\ tpc[r] = "none")

\* C2: once future.result(timeout=120) has run out for a request, the
\* responses sent for it are exactly one 408, also after the coroutine has
\* completed later.
C2_TimeoutIs408Once ==
  \A r \in Req : timedOut[r] => resp[r] = <<408>>

\* C2, the case: the request timed out and its coroutine then completed
\* with Success, the file written
C2_LateCompletion ==
  \E r \in Req :
    /\ timedOut[r]
    /\ tpc[r] = "done"
    /\ tres[r].tag = "Success"
    /\ tres[r].filename \in DOMAIN files

\* C3 as stated: the page operations of two generate calls are never in
\* progress at once.
C3_PageWorkSerialized ==
  \A r1 \in Req, r2 \in Req :
    r1 # r2 => ~(InPageWork(r1) /\ InPageWork(r2))

\* C3, amended: every page operation of every generate call is made by the
\* thread of the owning event loop; every submitted coroutine runs there.
C3_PageWorkOnLoop ==
  /\ drivers \subseteq {"loop"}
  /\ \A r \in Req : tpc[r] # "none" => tthread[r] = "loop"

\* C3, the case: two calls have page operations in progress at once, both
\* made from the loop
C3_Overlap ==
  \E r1 \in Req, r2 \in Req :
    /\ r1 # r2
    /\ tpc[r1] = "evaluate"
    /\ tpc[r2] \in {"title", "evaluate"}
    /\ drivers = {"loop"}

\* C4: the stored files are as many as the calls that returned Success, and
\* none of them is partial.
C4_OneFilePerSuccess ==
  /\ Cardinality(DOMAIN files) = Cardinality(Successes)
  /\ \A f \in DOMAIN files : files[f].whole

\* C5: whatever the page does, a finished generate call has returned Success
\* or Failure, and the handler that received it answered 200 or 400.
C5_GenerateReturnsTagged ==
  \A r \in Req :
    /\ tpc[r] = "done" => tres[r].tag \in {"Success", "Failure"}
    /\ (tpc[r] = "done" /\ hpc[r] = "done" /\ ~timedOut[r])
         => resp[r] \in {<<200>>, <<400>>}

\* C5, the case: an exception of the file write reached the outer handler
\* and came back as a Failure, answered with 400
C5_WriteErrorIsFailure ==
  \E r \in Req :
    /\ tpc[r] = "done"
    /\ tres[r] = Failure("No space left on device")
    /\ resp[r] = <<400>>

\* C6 as stated: after a navigation timeout or a detected block page the
\* process keeps running and serves the Gateway.
C6_InitFailureKeepsServing ==
  ((<<"init_error", "goto">> \in log \/ <<"blocked", "check">> \in log)
     /\ ~Interrupted)
    => (mainPc = "serving" /\ flask /\ browser /\ page)

\* C6, amended: a detected block page is logged and the process goes on to
\* serve the Gateway with the session open; an initialization step that
\* raises is logged and ends the process, the Gateway never started; in both
\* cases initialize_browser() is over for good and nothing has been released.
C6_BlockServesTimeoutExits ==
  /\ (<<"blocked", "check">> \in log /\ ~Interrupted)
       => (mainPc = "serving" /\ flask /\ browser /\ page /\ initPc = 9
           /\ released = <<>>)
  /\ (\E e \in log : e[1] = "init_error")
       => (mainPc = "exited" /\ ~flask /\ initPc = 9 /\ released = <<>>)

\* C6, the case: the block page was detected and a request was then served
C6_ServedAfterBlock ==
  /\ <<"blocked", "check">> \in log
  /\ mainPc = "serving"
  /\ resp[1] = <<200>>

\* C7: once cleanup_browser() has returned, the release of the page and then
\* of the browser have both been attempted.
C7_ShutdownAttemptsEveryRelease ==
  cleanupPc = 4 =>
    \E i \in 1..Len(released), j \in 1..Len(released) :
      i < j /\ released[i] = "page" /\ released[j] = "browser"

\* C8: the prompt passed to make_api_request is the default when the request
\* has no prompt or an empty one, and the request's prompt otherwise.
C8_DefaultWhenAbsentOrEmpty ==
  \A r \in Req :
    tpc[r] # "none" =>
      tprompt[r] = (IF ~body[r].json \/ ~body[r].has \/ body[r].prompt = <<>>
                    THEN DefaultPrompt ELSE body[r].prompt)

\* the name does not end in .png, or holds '/', '\' or two dots in a row
BadName(name) ==
  \/ Len(name) < 4
  \/ name[Len(name)] # "g" \/ name[Len(name) - 1] # "n"
  \/ name[Len(name) - 2] # "p" \/ name[Len(name) - 3] # "."
  \/ \E i \in 1..Len(name) : name[i] \in {"/", "\\"}
  \/ \E i \in 1..(Len(name) - 1) : name[i] = "." /\ name[i + 1] = "."

Stem(fn) == SubSeq(fn, 1, Len(fn) - 4)

\* the length of "generated_image_" + timestamp + "_"
LeadLen == Len(Tag) + Len(strftime(0)) + 1

\* the prompt has a character outside [A-Za-z0-9 _-]
HasUnsafe(p) == \E i \in 1..Len(p) : p[i] \notin AsciiSafe

\* C10 as stated: for a prompt with characters outside [A-Za-z0-9 _-], the
\* filename has none of them and is at most 50 characters before ".png".
C10_NameSafeAndShort ==
  (derived # <<>> /\ HasUnsafe(prompt)) =>
    /\ \A i \in 1..Len(Stem(derived)) : Stem(derived)[i] \in AsciiSafe
    /\ Len(Stem(derived)) <= 50

\* C10, amended: in every derived filename the part that comes from the
\* prompt (after "generated_image_<timestamp>_", before ".png") is at most
\* 50 characters long and holds only characters that str.isalnum() accepts
\* (letters and digits, ASCII or not), "-" and "_".
C10_FragmentSafeAndShort ==
  derived # <<>> =>
    /\ endswith(derived, DotPng)
    /\ Len(Stem(derived)) >= LeadLen
    /\ Len(Stem(derived)) - LeadLen <= 50
    /\ \A i \in (LeadLen + 1)..Len(Stem(derived)) :
         isalnum(Stem(derived)[i]) \/ Stem(derived)[i] \in {"-", "_"}

\* C10, the case: a prompt with an unsafe character and more than 50 kept
\* ones has been turned into a filename
C10_LongUnsafePrompt ==
  /\ derived # <<>>
  /\ HasUnsafe(prompt)
  /\ Len(Keep(prompt, Kept)) > 50

\* the call of r has finished with what page.evaluate() returned
Evaluated(r) == tpc[r] = "done" /\ result[r] # NoPage

\* the response did not announce an image: no content-type header, or one
\* without "image" in it
NotImage(res) == res.ctNone \/ ~contains(res.contentType, Image)

\* C11: when the page reports a success status and a content type that is
\* not an image (no content-type header included), make_api_request returns
\* a Failure whose data is the response body, parsed as JSON when it parses
\* and as text otherwise, and no file is written.
C11_NonImageSuccessCarriesBody ==
  \A r \in Req :
    (Evaluated(r) /\ ResultOk(result[r]) /\ NotImage(result[r])) =>
      /\ tres[r].tag = "Failure"
      /\ tres[r].data =
           [kind |-> IF json_parses(result[r].body) THEN "json" ELSE "text",
            val |-> result[r].body]
      /\ files = <<>>

\* C12: when the page reports a failure status with a text body, the
\* Failure returned carries that body as its error message; when the call in
\* the page threw, it carries the exception's message; and the handler that
\* receives the Failure answers 400.
C12_FailureStatusMessage ==
  \A r \in Req :
    (Evaluated(r) /\ ~ResultOk(result[r])) =>
      /\ "body" \in result[r].keys => tres[r] = Failure(result[r].body)
      /\ result[r].keys = {"error"} => tres[r] = Failure(result[r].error)
      /\ (hpc[r] = "done" /\ ~timedOut[r]) => resp[r] = <<400>>

\* C12, the case: the upstream rejected the call with a text body and the
\* handler has answered
C12_RejectionAnswered ==
  \E r \in Req :
    /\ Evaluated(r)
    /\ result[r] = Rejected
    /\ tres[r].error = TextBody
    /\ resp[r] = <<400>>

\* st_ctime of a stored file, in microseconds
ctime_us(f) == files[f].created * 1000000 + files[f].micro

\* the stored files that make_api_request has named
StoredGenerated == DOMAIN files \cap GeneratedNames

\* C13: /list-images answers success with count 0 and no entry when no
\* generated image is stored; with N of them stored it answers with N
\* entries, one for each, count = N, and each entry was created no earlier
\* than the entry after it.
C13_ListedNewestFirst ==
  list_status # 0 =>
    LET images == list_body.images
    IN  /\ list_status = 200
        /\ list_body.success
        /\ list_body.count = Cardinality(StoredGenerated)
        /\ Len(images) = list_body.count
        /\ {images[i].filename : i \in 1..Len(images)} = StoredGenerated
        /\ \A i \in 1..Len(images) :
             /\ images[i].size = files[images[i].filename].size
             /\ images[i].created =
                  isoformat(files[images[i].filename].created,
                            files[images[i].filename].micro)
        /\ \A i \in 1..(Len(images) - 1) :
             /\ ctime_us(images[i].filename) >= ctime_us(images[i + 1].filename)
             /\ ~str_lt(images[i].created, images[i + 1].created)
        /\ StoredGenerated = {} =>
             list_body = [success |-> TRUE, count |-> 0, images |-> <<>>]

\* C13, the case: three generated images changed at three different times
\* (one of them with a whole second as its time) have been listed from a
\* directory that holds other files too
C13_ThreeListed ==
  /\ list_status = 200
  /\ list_body.count = 3
  /\ DOMAIN files # StoredGenerated
  /\ ctime_us(list_body.images[1].filename) > ctime_us(list_body.images[2].filename)
  /\ ctime_us(list_body.images[2].filename) > ctime_us(list_body.images[3].filename)
  /\ \E i \in 1..3 : files[list_body.images[i].filename].micro = 0

\* C13, the case of no image: the listing of a directory without one
C13_NoneListed ==
  /\ list_status = 200
  /\ StoredGenerated = {}
  /\ DOMAIN files # {}

\* the filenames of the entries listed
Listed == {list_body.images[i].filename : i \in 1..Len(list_body.images)}

\* C14: every filename returned in a Success passes the validation of
\* /get-image and the filter of /list-images, so after any number of
\* successful generations each filename returned is listed by /list-images
\* and is found by /get-image under the same name.
C14_ReturnedNamesServed ==
  /\ [](/\ derived # <<>> => derived \in DOMAIN files
        /\ \A f \in DOMAIN files : ~invalid_name(f) /\ is_generated_png(f)
        /\ get_status # 0 =>
             (get_status \notin {400, 404} /\ fs_ops = <<"exists", "read">>))
  /\ [][list_status' # list_status =>
          (list_status' = 200 /\ Listed' = DOMAIN files)]_vars

\* C14, the case: two images generated from a prompt with a character that
\* a filename must not carry, both listed and one of them fetched
C14_TwoServed ==
  /\ HasUnsafe(prompt)
  /\ \E i \in 1..Len(prompt) : prompt[i] \in {"/", "."}
  /\ Cardinality(DOMAIN files) = 2
  /\ list_status = 200
  /\ get_status = 200
  /\ filename \in Listed

====
